---- MODULE Spec2Model ----
(***************************************************************************)
(* Carnil provider adapters (StripeProvider, RazorpayProvider).            *)
(*                                                                         *)
(* One adapter instance is constructed (Init) and its operations are       *)
(* called one after the other.  Every operation is one action: the vendor  *)
(* calls it issues, the vendor's reply (chosen by \E, the vendor being the *)
(* environment), the mapping of the reply and the value or error the       *)
(* returned promise settles with.  lastOp records the most recent call.    *)
(*                                                                         *)
(* Representation of JavaScript values:                                    *)
(*  - an object is a record holding exactly the fields that are present    *)
(*    (Has tests presence); a missing string field read by the code is     *)
(*    Undefined;                                                           *)
(*  - a major-unit amount (a double with at most three decimals) is the    *)
(*    integer number of thousandths: 20.00 is 20000, 1.005 is 1005;        *)
(*  - a vendor minor-unit amount is an integer;                            *)
(*  - a Date is [valid, time(ms)];                                         *)
(*  - a metadata / notes map is Map(entries), an array handed to the       *)
(*    caller is Array(items); record ids are integers, 0 standing for null.*)
(***************************************************************************)
EXTENDS Integers, Sequences, FiniteSets, TLC

\* Largest number of payment intents / orders the vendor account holds.
MaxIntents == 1

Undefined == "undefined"

Has(obj, field) == field \in DOMAIN obj

\* value || fallback for string-valued fields ('' and undefined are falsy).
OrElse(value, fallback) == IF value = Undefined \/ value = "" THEN fallback ELSE value

\* obj.field, undefined when the object lacks it.
Get(obj, field) == IF Has(obj, field) THEN obj[field] ELSE Undefined

\* A map (metadata, notes) holds its entries as <<key, value>> pairs; null and
\* undefined are values of their own.
Map(entries) == [kind |-> "map", entries |-> entries]
EmptyMap == Map({})
Null == [kind |-> "null"]
UndefinedValue == [kind |-> "undefined"]

\* A JavaScript array handed to the caller: its length and its items.
Array(items) == [length |-> Len(items), items |-> items]

VARIABLES
  name,           \* this.name of the adapter instance
  config,         \* this.config
  client,         \* this.stripe / this.razorpay: the options the vendor client was built with
  intents,        \* the vendor's payment intents (Stripe) / orders (Razorpay), by id
  customers,      \* the vendor's customers, by id
  paymentMethods, \* the vendor's payment methods (Stripe), by id
  lastOp          \* the last operation called: [op, args, calls, outcome]

vars == <<name, config, client, intents, customers, paymentMethods, lastOp>>

Called(op, args, calls, outcome) ==
  [op |-> op, args |-> args, calls |-> calls, outcome |-> outcome]

\* A vendor SDK call with its parameters and what the vendor answered.
VendorCall(api, params, reply) == [api |-> api, params |-> params, reply |-> reply]

IntentIds == 1..MaxIntents

(***************************************************************************)
(* Static fields of the two classes.                                       *)
(***************************************************************************)
ProviderNames == {"stripe", "razorpay"}

\* Representatives of StripeProvider.supportedCurrencies.
StripeSupportedCurrencies == {"usd", "jpy"}

\* Representatives of RazorpayProvider.supportedCurrencies.
RazorpaySupportedCurrencies == {"usd", "kwd"}

supportedCurrencies(provider) ==
  IF provider = "stripe" THEN StripeSupportedCurrencies ELSE RazorpaySupportedCurrencies

\* supportedFeatures, the same list in both classes.
supportedFeatures(provider) ==
  { "customers", "payments", "subscriptions", "invoices", "refunds",
    "disputes", "webhooks", "analytics" }

\* The factor both adapters use between major and minor units.
MinorUnitFactor == 100

(***************************************************************************)
(* Errors.                                                                 *)
(***************************************************************************)
\* new CarnilError(message, code)
CarnilError(message, code) == [isCarnilError |-> TRUE, message |-> message, code |-> code]

\* What a failing vendor SDK call rejects with: an error object that carries
\* the HTTP status when the vendor answered, none on a transport failure.
VendorErrors ==
  { [ok |-> FALSE, message |-> "not found", statusCode |-> 404],
    [ok |-> FALSE, message |-> "unauthorized", statusCode |-> 401],
    [ok |-> FALSE, message |-> "socket hang up"] }

NotFoundError == [ok |-> FALSE, message |-> "not found", statusCode |-> 404]

\* createProviderError(provider, error, message?) of @carnil/core: the error
\* re-raised at the adapter boundary.  It carries the vendor name; an error
\* that already has a Carnil kind keeps it, a failed webhook parse is a
\* PARSE_ERROR, everything else is an opaque VENDOR_ERROR.
createProviderError(provider, error, message) ==
  [ provider |-> provider,
    code     |-> IF Has(error, "isCarnilError") THEN error.code
                 ELSE IF message # Undefined THEN "PARSE_ERROR"
                 ELSE "VENDOR_ERROR",
    message  |-> IF message # Undefined THEN message ELSE error.message ]

\* How an async method's promise settles.
Resolved(value) == [kind |-> "resolved", value |-> value]
Rejected(error) == [kind |-> "rejected", error |-> error]

(***************************************************************************)
(* Unit conversion.                                                        *)
(***************************************************************************)
\* Amounts whose IEEE-754 product amount * 100 falls just below the tie the
\* decimal product sits on: 1.005 * 100 is 100.49999999999999.
ProductBelowTie == {1005}

\* Math.round(amount * 100): the product in thousandths of a minor unit,
\* rounded to the nearest integer, ties towards +Infinity.
MathRoundTimes100(amount) ==
  LET product == amount * MinorUnitFactor
  IN  IF product % 1000 = 500 /\ amount \in ProductBelowTie
      THEN product \div 1000
      ELSE (product + 500) \div 1000

\* minor / 100, as thousandths of a major unit (the quotient of an integer by
\* 100 is the double nearest to the two-decimal value, so it is that value).
DivideBy100(minor) == (minor * 1000) \div MinorUnitFactor

\* new Date(seconds * 1000); seconds is absent when the field was undefined.
NewDate(obj, field) ==
  IF Has(obj, field) THEN [valid |-> TRUE, time |-> obj[field] * 1000]
  ELSE [valid |-> FALSE, time |-> 0]

(***************************************************************************)
(* Payment intents: statuses and mapping functions.                        *)
(***************************************************************************)
\* PaymentIntent['status'] of the normalized model.
NormalizedStatuses ==
  {"requires_payment_method", "processing", "succeeded", "failed", "canceled"}

\* Stripe.PaymentIntent.Status, plus a value a later API version might add.
StripeStatuses ==
  { "requires_payment_method", "requires_confirmation", "requires_action",
    "processing", "requires_capture", "canceled", "succeeded",
    "some_future_status" }

\* The statuses mapRazorpayOrderStatus names.
RazorpayKnownStatuses == {"created", "attempted", "paid", "failed"}

\* What an order's status field may hold, a value of a later API version included.
RazorpayStatuses == RazorpayKnownStatuses \cup {"some_future_status"}

VendorStatuses(provider) ==
  IF provider = "stripe" THEN StripeStatuses ELSE RazorpayStatuses

mapStripePaymentIntent(paymentIntent) ==
  [ id              |-> paymentIntent.id,
    customerId      |-> paymentIntent.customer,
    amount          |-> DivideBy100(paymentIntent.amount),
    currency        |-> paymentIntent.currency,
    status          |-> paymentIntent.status,
    metadata        |-> paymentIntent.metadata,
    paymentMethodId |-> OrElse(paymentIntent.payment_method, Undefined),
    created         |-> NewDate(paymentIntent, "created"),
    updated         |-> NewDate(paymentIntent, "created"),
    provider        |-> "stripe",
    providerId      |-> paymentIntent.id ]

\* A variant that hands the vendor's status through.
mapRazorpayOrderStatus_Passthrough(status) == status

mapRazorpayOrderStatus(status) ==
  CASE status = "created"   -> "requires_payment_method"
    [] status = "attempted" -> "processing"
    [] status = "paid"      -> "succeeded"
    [] status = "failed"    -> "failed"
    [] OTHER                -> "requires_payment_method"

mapRazorpayOrder(order, customerId) ==
  [ id              |-> order.id,
    customerId      |-> OrElse(customerId, ""),
    amount          |-> DivideBy100(order.amount),
    currency        |-> order.currency,
    status          |-> mapRazorpayOrderStatus(order.status),
    clientSecret    |-> order.id,
    description     |-> OrElse(order.receipt, Undefined),
    metadata        |-> IF Has(order, "notes") THEN order.notes ELSE EmptyMap,
    paymentMethodId |-> Undefined,
    created         |-> NewDate(order, "created_at"),
    updated         |-> NewDate(order, "created_at"),
    provider        |-> "razorpay",
    providerId      |-> order.id ]

(***************************************************************************)
(* The vendors, as far as the adapters' calls observe them.                *)
(***************************************************************************)
\* stripe.paymentIntents.create: the new intent waits for a payment method,
\* or for confirmation when the request named one (the adapter never sets
\* confirm).  A missing customer / payment method is null, held as Undefined;
\* metadata is {} when the request sent none.
StripeNewIntent(id, params) ==
  [ id             |-> id,
    amount         |-> params.amount,
    currency       |-> params.currency,
    customer       |-> params.customer,
    payment_method |-> params.payment_method,
    status         |-> IF params.payment_method = Undefined
                       THEN "requires_payment_method"
                       ELSE "requires_confirmation",
    metadata       |-> EmptyMap,
    created        |-> 1700 ]

\* razorpay.orders.create: the new order is in status created.
RazorpayNewOrder(id, params) ==
  [ id         |-> id,
    amount     |-> params.amount,
    currency   |-> params.currency,
    receipt    |-> params.receipt,
    status     |-> "created",
    created_at |-> 1700 ]

\* A vendor call either goes through or rejects with one of VendorErrors.
Ok == [ok |-> TRUE]
VendorReplies == {Ok} \cup VendorErrors

\* Fetching a record by id: the record when the account holds it, else 404.
FetchReplies(id) ==
  (IF id \in DOMAIN intents THEN {Ok} ELSE {NotFoundError})
    \cup (VendorErrors \ {NotFoundError})

(***************************************************************************)
(* Payment-intent requests.                                                *)
(***************************************************************************)
\* CreatePaymentIntentRequest: amount (thousandths of a major unit: 20.00,
\* 1.005 and the READMEs' 2000), currency, optional customerId and paymentMethodId.
Request(amount, currency, customerId, paymentMethodId) ==
  [ amount |-> amount, currency |-> currency,
    customerId |-> customerId, paymentMethodId |-> paymentMethodId ]

\* The requests tried on each adapter; every currency is one the adapter lists.
CreatePaymentIntentRequests(provider) ==
  IF provider = "stripe"
  THEN { Request(20000, "usd", Undefined, Undefined),
         Request(20000, "usd", "cus_1", "pm_1"),
         Request(1005, "usd", Undefined, Undefined),
         Request(20000, "jpy", Undefined, Undefined),
         Request(2000000, "usd", Undefined, Undefined) }
  ELSE { Request(20000, "usd", Undefined, Undefined),
         Request(20000, "usd", "cus_1", "pm_1"),
         Request(1005, "kwd", Undefined, Undefined),
         Request(20000, "kwd", "cus_1", Undefined),
         Request(2000000, "usd", Undefined, Undefined) }

(***************************************************************************)
(* Construction.                                                           *)
(***************************************************************************)
\* ProviderConfig values the adapters are constructed with; an API key is held
\* as <<its first characters, the rest>>.
Configs(provider) ==
  IF provider = "stripe"
  THEN { [apiKey |-> <<"sk_test_", "key">>] }
  ELSE { [apiKey |-> <<"rzp_test_", "key">>], [apiKey |-> <<"rzp_live_", "key">>] }

\* The defaults of the StripeProvider constructor.
DefaultTimeout == 30000
DefaultRetries == 3

\* config[field] || fallback for an optional number (0 and undefined are falsy).
NumberOrElse(cfg, field, fallback) ==
  IF Has(cfg, field) /\ cfg[field] # 0 THEN cfg[field] ELSE fallback

\* new Stripe(config.apiKey, {apiVersion, timeout, maxNetworkRetries})
StripeClient(cfg) ==
  [ apiKey            |-> cfg.apiKey,
    apiVersion        |-> "2023-10-16",
    timeout           |-> NumberOrElse(cfg, "timeout", DefaultTimeout),
    maxNetworkRetries |-> NumberOrElse(cfg, "retries", DefaultRetries) ]

\* new Razorpay({key_id, key_secret})
RazorpayClient(cfg) ==
  [ key_id |-> cfg.apiKey, key_secret |-> cfg.apiKey ]

\* What the constructor leaves in this.stripe / this.razorpay.
NewClient(provider, cfg) ==
  IF provider = "stripe" THEN StripeClient(cfg) ELSE RazorpayClient(cfg)

\* A customer id where the vendor holds null (a payment method not attached).
NoCustomer == 0

\* The cards the account's payment page has saved before the adapter is
\* constructed (the adapters cannot create one).  Stripe.PaymentMethod types
\* metadata as Stripe.Metadata | null.
StripeCard(id, customer, metadata) ==
  [ id |-> id, customer |-> customer, metadata |-> metadata,
    card |-> [brand |-> "visa", last4 |-> "4242"], created |-> 1700 ]

CardsAtStart(provider) ==
  IF provider = "stripe"
  THEN << StripeCard(1, NoCustomer, EmptyMap) >>
  ELSE << >>

NoCall == Called("none", <<>>, <<>>, [kind |-> "none"])

Init ==
  /\ name \in ProviderNames
  /\ config \in Configs(name)
  /\ client = NewClient(name, config)
  /\ intents = <<>>
  /\ customers = <<>>
  /\ paymentMethods = CardsAtStart(name)
  /\ lastOp = NoCall

(***************************************************************************)
(* Payment-intent operations.                                              *)
(***************************************************************************)
\* A variant that forgets the conversion: Math.round(request.amount).
StripeCreateParams_Unconverted(request) ==
  [ amount         |-> (request.amount + 500) \div 1000,
    currency       |-> request.currency,
    customer       |-> request.customerId,
    payment_method |-> request.paymentMethodId ]

StripeCreateParams(request) ==
  [ amount         |-> MathRoundTimes100(request.amount),
    currency       |-> request.currency,
    customer       |-> request.customerId,
    payment_method |-> request.paymentMethodId ]

StripeProvider_createPaymentIntent ==
  /\ name = "stripe"
  /\ \E request \in CreatePaymentIntentRequests("stripe"), reply \in VendorReplies :
       LET params == StripeCreateParams(request)
           paymentIntent == StripeNewIntent(Len(intents) + 1, params)
       IN  IF reply.ok
           THEN /\ Len(intents) < MaxIntents
                /\ intents' = Append(intents, paymentIntent)
                /\ lastOp' = Called("createPaymentIntent", request,
                                << VendorCall("paymentIntents.create", params, paymentIntent) >>,
                                Resolved(mapStripePaymentIntent(paymentIntent)))
           ELSE /\ intents' = intents
                /\ lastOp' = Called("createPaymentIntent", request,
                                << VendorCall("paymentIntents.create", params, reply) >>,
                                Rejected(createProviderError("stripe", reply, Undefined)))
  /\ UNCHANGED <<name, config, client, customers, paymentMethods>>

StripeProvider_getPaymentIntent ==
  /\ name = "stripe"
  /\ \E id \in IntentIds : \E reply \in FetchReplies(id) :
       /\ lastOp' = Called("getPaymentIntent", [id |-> id],
                       << VendorCall("paymentIntents.retrieve", [id |-> id],
                                     IF reply.ok THEN intents[id] ELSE reply) >>,
                       IF reply.ok
                       THEN Resolved(mapStripePaymentIntent(intents[id]))
                       ELSE Rejected(createProviderError("stripe", reply, Undefined)))
  /\ UNCHANGED <<name, config, client, intents, customers, paymentMethods>>

\* `receipt_${Date.now()}`: the clock is not modelled, the receipt is one token.
RazorpayCreateParams(request) ==
  [ amount   |-> MathRoundTimes100(request.amount),
    currency |-> request.currency,
    receipt  |-> "receipt_now" ]

RazorpayProvider_createPaymentIntent ==
  /\ name = "razorpay"
  /\ \E request \in CreatePaymentIntentRequests("razorpay"), reply \in VendorReplies :
       LET params == RazorpayCreateParams(request)
           order == RazorpayNewOrder(Len(intents) + 1, params)
       IN  IF reply.ok
           THEN /\ Len(intents) < MaxIntents
                /\ intents' = Append(intents, order)
                /\ lastOp' = Called("createPaymentIntent", request,
                                << VendorCall("orders.create", params, order) >>,
                                Resolved(mapRazorpayOrder(order, request.customerId)))
           ELSE /\ intents' = intents
                /\ lastOp' = Called("createPaymentIntent", request,
                                << VendorCall("orders.create", params, reply) >>,
                                Rejected(createProviderError("razorpay", reply, Undefined)))
  /\ UNCHANGED <<name, config, client, customers, paymentMethods>>

RazorpayProvider_getPaymentIntent ==
  /\ name = "razorpay"
  /\ \E id \in IntentIds : \E reply \in FetchReplies(id) :
       /\ lastOp' = Called("getPaymentIntent", [id |-> id],
                       << VendorCall("orders.fetch", [id |-> id],
                                     IF reply.ok THEN intents[id] ELSE reply) >>,
                       IF reply.ok
                       THEN Resolved(mapRazorpayOrder(intents[id], Undefined))
                       ELSE Rejected(createProviderError("razorpay", reply, Undefined)))
  /\ UNCHANGED <<name, config, client, intents, customers, paymentMethods>>

(***************************************************************************)
(* Customers.                                                              *)
(***************************************************************************)
\* Largest number of customers the vendor account holds.
MaxCustomers == 1

CustomerIds == 1..MaxCustomers

\* The saved cards, by id.
PaymentMethodIds == {1}

\* A payment-method id where the vendor holds null (no default set).
NoPaymentMethod == 0

\* What a vendor call with an invalid parameter rejects with.
InvalidRequestError == [ok |-> FALSE, message |-> "invalid request", statusCode |-> 400]

\* CreateCustomerRequest / UpdateCustomerRequest: email, name, metadata; a
\* field the caller leaves out is undefined.
CustomerRequest(email, customerName, metadata) ==
  [email |-> email, name |-> customerName, metadata |-> metadata]

CreateCustomerRequests ==
  { CustomerRequest("ann@example.com", "Ann", UndefinedValue),
    CustomerRequest("ann@example.com", "Ann", Map({<<"plan", "pro">>})) }

UpdateCustomerRequests ==
  { CustomerRequest(Undefined, "Bob", Map({<<"plan", "team">>})) }

\* The vendor's merge of a metadata update into the stored map.
Merge(stored, update) ==
  IF update = UndefinedValue THEN stored
  ELSE Map({e \in stored.entries : \A u \in update.entries : u[1] # e[1]}
           \cup update.entries)

\* field || undefined of a vendor record (null is held as Undefined).
OrUndefined(obj, field) == OrElse(Get(obj, field), Undefined)

mapStripeCustomer(customer) ==
  [ id          |-> customer.id,
    email       |-> OrUndefined(customer, "email"),
    name        |-> OrUndefined(customer, "name"),
    phone       |-> OrUndefined(customer, "phone"),
    description |-> OrUndefined(customer, "description"),
    metadata    |-> IF Has(customer, "metadata") THEN customer.metadata
                    ELSE UndefinedValue,
    created     |-> NewDate(customer, "created"),
    updated     |-> NewDate(customer, "created"),
    deleted     |-> Has(customer, "deleted") /\ customer.deleted,
    provider    |-> "stripe",
    providerId  |-> customer.id ]

\* A variant that leaves providerId out.
mapRazorpayCustomer_NoProviderId(customer) ==
  [ id          |-> customer.id,
    email       |-> OrUndefined(customer, "email"),
    name        |-> OrUndefined(customer, "name"),
    phone       |-> OrUndefined(customer, "contact"),
    description |-> Undefined,
    metadata    |-> IF Has(customer, "notes") THEN customer.notes ELSE EmptyMap,
    created     |-> NewDate(customer, "created_at"),
    updated     |-> NewDate(customer, "created_at"),
    deleted     |-> Has(customer, "notes")
                    /\ <<"status", "inactive">> \in customer.notes.entries,
    provider    |-> "razorpay",
    providerId  |-> NoCustomer ]

mapRazorpayCustomer(customer) ==
  [ id          |-> customer.id,
    email       |-> OrUndefined(customer, "email"),
    name        |-> OrUndefined(customer, "name"),
    phone       |-> OrUndefined(customer, "contact"),
    description |-> Undefined,
    metadata    |-> IF Has(customer, "notes") THEN customer.notes ELSE EmptyMap,
    created     |-> NewDate(customer, "created_at"),
    updated     |-> NewDate(customer, "created_at"),
    deleted     |-> Has(customer, "notes")
                    /\ <<"status", "inactive">> \in customer.notes.entries,
    provider    |-> "razorpay",
    providerId  |-> customer.id ]

mapStripePaymentMethod(paymentMethod) ==
  [ id         |-> paymentMethod.id,
    customerId |-> paymentMethod.customer,
    type       |-> "card",
    brand      |-> paymentMethod.card.brand,
    last4      |-> paymentMethod.card.last4,
    isDefault  |-> FALSE,
    metadata   |-> paymentMethod.metadata,
    created    |-> NewDate(paymentMethod, "created"),
    updated    |-> NewDate(paymentMethod, "created"),
    provider   |-> "stripe",
    providerId |-> paymentMethod.id ]

\* stripe.customers.create: metadata is {} when the request sent none.
StripeNewCustomer(id, params) ==
  [ id       |-> id,
    email    |-> params.email,
    name     |-> params.name,
    metadata |-> Merge(EmptyMap, params.metadata),
    created  |-> 1700,
    default_payment_method |-> NoPaymentMethod ]

\* stripe.customers.update: the fields sent replace the stored ones, metadata
\* keys are merged.
StripeUpdatedCustomer(customer, params) ==
  [ customer EXCEPT
      !.email    = IF params.email # Undefined THEN params.email ELSE @,
      !.name     = IF params.name # Undefined THEN params.name ELSE @,
      !.metadata = Merge(@, params.metadata) ]

\* stripe.customers.del leaves a Stripe.DeletedCustomer behind.
StripeDeletedCustomer(id) == [id |-> id, deleted |-> TRUE]

\* razorpay.customers.create: notes are stored when the request sent some.
RazorpayNewCustomer(id, params) ==
  LET customer == [ id |-> id, name |-> params.name, email |-> params.email,
                    contact |-> params.contact, created_at |-> 1700 ]
  IN  IF params.notes = UndefinedValue THEN customer
      ELSE customer @@ [notes |-> params.notes]

\* razorpay.customers.edit: name, email and contact are replaced when sent.
RazorpayEditedCustomer(customer, params) ==
  [ customer EXCEPT
      !.name    = IF params.name # Undefined THEN params.name ELSE @,
      !.email   = IF params.email # Undefined THEN params.email ELSE @,
      !.contact = IF params.contact # Undefined THEN params.contact ELSE @ ]

\* Whether the account holds a customer that was not deleted.
Live(id) ==
  /\ id \in DOMAIN customers
  /\ ~(Has(customers[id], "deleted") /\ customers[id].deleted)

\* A call on one customer: 404 when the account does not hold a live one.
CustomerReplies(id) ==
  (IF Live(id) THEN {Ok} ELSE {NotFoundError}) \cup (VendorErrors \ {NotFoundError})

StripeCustomerParams(request) ==
  [ email |-> request.email, name |-> request.name, phone |-> Undefined,
    description |-> Undefined, metadata |-> request.metadata ]

StripeProvider_createCustomer ==
  /\ name = "stripe"
  /\ \E request \in CreateCustomerRequests, reply \in VendorReplies :
       LET params == StripeCustomerParams(request)
           customer == StripeNewCustomer(Len(customers) + 1, params)
       IN  IF reply.ok
           THEN /\ Len(customers) < MaxCustomers
                /\ customers' = Append(customers, customer)
                /\ lastOp' = Called("createCustomer", request,
                                << VendorCall("customers.create", params, customer) >>,
                                Resolved(mapStripeCustomer(customer)))
           ELSE /\ customers' = customers
                /\ lastOp' = Called("createCustomer", request,
                                << VendorCall("customers.create", params, reply) >>,
                                Rejected(createProviderError("stripe", reply, Undefined)))
  /\ UNCHANGED <<name, config, client, intents, paymentMethods>>

\* A variant that maps whatever customers.retrieve answers.
StripeGetCustomer_MapsDeleted(id, reply) ==
  Called("getCustomer", [id |-> id],
    << VendorCall("customers.retrieve", [id |-> id],
                  IF reply.ok THEN customers[id] ELSE reply) >>,
    IF ~reply.ok
    THEN Rejected(createProviderError("stripe", reply, Undefined))
    ELSE Resolved(mapStripeCustomer(customers[id])))

\* customers.retrieve answers a deleted customer with {id, deleted: true}; the
\* adapter turns that into NOT_FOUND inside its try block.
StripeGetCustomer(id, reply) ==
  Called("getCustomer", [id |-> id],
    << VendorCall("customers.retrieve", [id |-> id],
                  IF reply.ok THEN customers[id] ELSE reply) >>,
    IF ~reply.ok
    THEN Rejected(createProviderError("stripe", reply, Undefined))
    ELSE IF Has(customers[id], "deleted") /\ customers[id].deleted
    THEN Rejected(createProviderError("stripe",
                    CarnilError("Customer not found", "NOT_FOUND"), Undefined))
    ELSE Resolved(mapStripeCustomer(customers[id])))

StripeProvider_getCustomer ==
  /\ name = "stripe"
  /\ \E id \in CustomerIds :
       \E reply \in (IF id \in DOMAIN customers THEN {Ok} ELSE {NotFoundError})
                      \cup (VendorErrors \ {NotFoundError}) :
         lastOp' = StripeGetCustomer(id, reply)
  /\ UNCHANGED <<name, config, client, intents, customers, paymentMethods>>

\* The built StripeProvider's retrieveCustomer(_params):
\* getCustomer(_params.id || _params). The argument is an object with an id
\* or a bare id string, which has no id property.
RetrieveCustomerParams == { [id |-> id] : id \in CustomerIds }
                            \cup { [string |-> id] : id \in CustomerIds }

IdOrSelf(params) == IF Has(params, "id") THEN params.id ELSE params.string

StripeProvider_retrieveCustomer ==
  /\ name = "stripe"
  /\ \E params \in RetrieveCustomerParams :
       \E reply \in (IF IdOrSelf(params) \in DOMAIN customers
                      THEN {Ok} ELSE {NotFoundError})
                      \cup (VendorErrors \ {NotFoundError}) :
         lastOp' = [ StripeGetCustomer(IdOrSelf(params), reply)
                       EXCEPT !.op = "retrieveCustomer", !.args = params ]
  /\ UNCHANGED <<name, config, client, intents, customers, paymentMethods>>

StripeProvider_updateCustomer ==
  /\ name = "stripe"
  /\ \E id \in CustomerIds, request \in UpdateCustomerRequests :
       \E reply \in CustomerReplies(id) :
         LET params == StripeCustomerParams(request)
         IN  IF reply.ok
             THEN LET customer == StripeUpdatedCustomer(customers[id], params)
                  IN  /\ customers' = [customers EXCEPT ![id] = customer]
                      /\ lastOp' = Called("updateCustomer", [id |-> id, request |-> request],
                                      << VendorCall("customers.update", params, customer) >>,
                                      Resolved(mapStripeCustomer(customer)))
             ELSE /\ customers' = customers
                  /\ lastOp' = Called("updateCustomer", [id |-> id, request |-> request],
                                  << VendorCall("customers.update", params, reply) >>,
                                  Rejected(createProviderError("stripe", reply, Undefined)))
  /\ UNCHANGED <<name, config, client, intents, paymentMethods>>

StripeProvider_deleteCustomer ==
  /\ name = "stripe"
  /\ \E id \in CustomerIds : \E reply \in CustomerReplies(id) :
       IF reply.ok
       THEN /\ customers' = [customers EXCEPT ![id] = StripeDeletedCustomer(id)]
            /\ lastOp' = Called("deleteCustomer", [id |-> id],
                            << VendorCall("customers.del", [id |-> id],
                                          StripeDeletedCustomer(id)) >>,
                            Resolved(UndefinedValue))
       ELSE /\ customers' = customers
            /\ lastOp' = Called("deleteCustomer", [id |-> id],
                            << VendorCall("customers.del", [id |-> id], reply) >>,
                            Rejected(createProviderError("stripe", reply, Undefined)))
  /\ UNCHANGED <<name, config, client, intents, paymentMethods>>

RazorpayCustomerParams(request) ==
  [ name |-> request.name, email |-> request.email, contact |-> Undefined,
    notes |-> request.metadata ]

RazorpayProvider_createCustomer ==
  /\ name = "razorpay"
  /\ \E request \in CreateCustomerRequests, reply \in VendorReplies :
       LET params == RazorpayCustomerParams(request)
           customer == RazorpayNewCustomer(Len(customers) + 1, params)
       IN  IF reply.ok
           THEN /\ Len(customers) < MaxCustomers
                /\ customers' = Append(customers, customer)
                /\ lastOp' = Called("createCustomer", request,
                                << VendorCall("customers.create", params, customer) >>,
                                Resolved(mapRazorpayCustomer(customer)))
           ELSE /\ customers' = customers
                /\ lastOp' = Called("createCustomer", request,
                                << VendorCall("customers.create", params, reply) >>,
                                Rejected(createProviderError("razorpay", reply, Undefined)))
  /\ UNCHANGED <<name, config, client, intents, paymentMethods>>

RazorpayGetCustomer(id, reply) ==
  Called("getCustomer", [id |-> id],
    << VendorCall("customers.fetch", [id |-> id],
                  IF reply.ok THEN customers[id] ELSE reply) >>,
    IF reply.ok
    THEN Resolved(mapRazorpayCustomer(customers[id]))
    ELSE Rejected(createProviderError("razorpay", reply, Undefined)))

RazorpayProvider_getCustomer ==
  /\ name = "razorpay"
  /\ \E id \in CustomerIds : \E reply \in CustomerReplies(id) :
       lastOp' = RazorpayGetCustomer(id, reply)
  /\ UNCHANGED <<name, config, client, intents, customers, paymentMethods>>

\* retrieveCustomer throws NOT_IMPLEMENTED, outside any try.
RazorpayProvider_retrieveCustomer ==
  /\ name = "razorpay"
  /\ \E params \in RetrieveCustomerParams :
       lastOp' = Called("retrieveCustomer", params, <<>>,
                   Rejected(CarnilError("Not implemented", "NOT_IMPLEMENTED")))
  /\ UNCHANGED <<name, config, client, intents, customers, paymentMethods>>

\* customers.edit is sent name, email and contact only.
RazorpayEditParams(request) ==
  [ name |-> request.name, email |-> request.email, contact |-> Undefined ]

RazorpayProvider_updateCustomer ==
  /\ name = "razorpay"
  /\ \E id \in CustomerIds, request \in UpdateCustomerRequests :
       \E reply \in CustomerReplies(id) :
         LET params == RazorpayEditParams(request)
         IN  IF reply.ok
             THEN LET customer == RazorpayEditedCustomer(customers[id], params)
                  IN  /\ customers' = [customers EXCEPT ![id] = customer]
                      /\ lastOp' = Called("updateCustomer", [id |-> id, request |-> request],
                                      << VendorCall("customers.edit", params, customer) >>,
                                      Resolved(mapRazorpayCustomer(customer)))
             ELSE /\ customers' = customers
                  /\ lastOp' = Called("updateCustomer", [id |-> id, request |-> request],
                                  << VendorCall("customers.edit", params, reply) >>,
                                  Rejected(createProviderError("razorpay", reply, Undefined)))
  /\ UNCHANGED <<name, config, client, intents, paymentMethods>>

\* try { /* nothing */ } catch ...: resolves without a vendor call.
RazorpayDeleteCustomer(id) ==
  Called("deleteCustomer", [id |-> id], <<>>, Resolved(UndefinedValue))

RazorpayProvider_deleteCustomer ==
  /\ name = "razorpay"
  /\ \E id \in CustomerIds : lastOp' = RazorpayDeleteCustomer(id)
  /\ UNCHANGED <<name, config, client, intents, customers, paymentMethods>>

(***************************************************************************)
(* Payment methods (Stripe).                                               *)
(***************************************************************************)
\* A call on a saved card of a customer: 404 when the account lacks either.
CardReplies(customerId, paymentMethodId) ==
  (IF Live(customerId) /\ paymentMethodId \in DOMAIN paymentMethods
   THEN {Ok} ELSE {NotFoundError}) \cup (VendorErrors \ {NotFoundError})

\* paymentMethods.list({customer, type: 'card'}): the cards attached to the customer.
CardsOf(customerId) ==
  SelectSeq(paymentMethods, LAMBDA pm : pm.customer = customerId)

\* paymentMethods.data.map(pm => this.mapStripePaymentMethod(pm))
mapStripePaymentMethods(data) ==
  Array([k \in 1..Len(data) |-> mapStripePaymentMethod(data[k])])

\* A variant that answers a failed vendor call with an empty list.
StripeListPaymentMethods_Masked(customerId, reply) ==
  Called("listPaymentMethods", [customerId |-> customerId],
    << VendorCall("paymentMethods.list", [customer |-> customerId, type |-> "card"],
                  IF reply.ok THEN [data |-> CardsOf(customerId)] ELSE reply) >>,
    IF reply.ok
    THEN Resolved(mapStripePaymentMethods(CardsOf(customerId)))
    ELSE Resolved(Array(<<>>)))

StripeListPaymentMethods(customerId, reply) ==
  Called("listPaymentMethods", [customerId |-> customerId],
    << VendorCall("paymentMethods.list", [customer |-> customerId, type |-> "card"],
                  IF reply.ok THEN [data |-> CardsOf(customerId)] ELSE reply) >>,
    IF reply.ok
    THEN Resolved(mapStripePaymentMethods(CardsOf(customerId)))
    ELSE Rejected(createProviderError("stripe", reply, Undefined)))

StripeProvider_listPaymentMethods ==
  /\ name = "stripe"
  /\ \E customerId \in CustomerIds : \E reply \in CustomerReplies(customerId) :
       lastOp' = StripeListPaymentMethods(customerId, reply)
  /\ UNCHANGED <<name, config, client, intents, customers, paymentMethods>>

StripeProvider_attachPaymentMethod ==
  /\ name = "stripe"
  /\ \E customerId \in CustomerIds, paymentMethodId \in PaymentMethodIds :
       \E reply \in CardReplies(customerId, paymentMethodId) :
         LET args == [customerId |-> customerId, paymentMethodId |-> paymentMethodId]
             params == [id |-> paymentMethodId, customer |-> customerId]
         IN  IF reply.ok
             THEN LET paymentMethod ==
                        [paymentMethods[paymentMethodId] EXCEPT !.customer = customerId]
                  IN  /\ paymentMethods' =
                           [paymentMethods EXCEPT ![paymentMethodId] = paymentMethod]
                      /\ lastOp' = Called("attachPaymentMethod", args,
                                      << VendorCall("paymentMethods.attach", params,
                                                    paymentMethod) >>,
                                      Resolved(mapStripePaymentMethod(paymentMethod)))
             ELSE /\ paymentMethods' = paymentMethods
                  /\ lastOp' = Called("attachPaymentMethod", args,
                                  << VendorCall("paymentMethods.attach", params, reply) >>,
                                  Rejected(createProviderError("stripe", reply, Undefined)))
  /\ UNCHANGED <<name, config, client, intents, customers>>

\* paymentMethods.detach: the card loses its customer, and the customer loses
\* it as default; a card that is not attached is an invalid request.
StripeProvider_detachPaymentMethod ==
  /\ name = "stripe"
  /\ \E paymentMethodId \in PaymentMethodIds :
       \E reply \in (IF paymentMethods[paymentMethodId].customer # NoCustomer
                     THEN {Ok} ELSE {InvalidRequestError})
                      \cup (VendorErrors \ {NotFoundError}) :
         LET args == [paymentMethodId |-> paymentMethodId]
         IN  IF reply.ok
             THEN LET paymentMethod ==
                        [paymentMethods[paymentMethodId] EXCEPT !.customer = NoCustomer]
                  IN  /\ paymentMethods' =
                           [paymentMethods EXCEPT ![paymentMethodId] = paymentMethod]
                      /\ customers' =
                           [ id \in DOMAIN customers |->
                               IF /\ Has(customers[id], "default_payment_method")
                                  /\ customers[id].default_payment_method = paymentMethodId
                               THEN [customers[id] EXCEPT
                                       !.default_payment_method = NoPaymentMethod]
                               ELSE customers[id] ]
                      /\ lastOp' = Called("detachPaymentMethod", args,
                                      << VendorCall("paymentMethods.detach", args,
                                                    paymentMethod) >>,
                                      Resolved(UndefinedValue))
             ELSE /\ paymentMethods' = paymentMethods
                  /\ customers' = customers
                  /\ lastOp' = Called("detachPaymentMethod", args,
                                  << VendorCall("paymentMethods.detach", args, reply) >>,
                                  Rejected(createProviderError("stripe", reply, Undefined)))
  /\ UNCHANGED <<name, config, client, intents>>

\* customers.update({invoice_settings: {default_payment_method}}): the card has
\* to be attached to the customer.
DefaultReplies(customerId, paymentMethodId) ==
  (IF ~Live(customerId) THEN {NotFoundError}
   ELSE IF paymentMethods[paymentMethodId].customer # customerId
   THEN {InvalidRequestError}
   ELSE {Ok}) \cup (VendorErrors \ {NotFoundError})

\* Two vendor calls in one try block: customers.update, then
\* paymentMethods.retrieve; the second is made only when the first went through.
StripeProvider_setDefaultPaymentMethod ==
  /\ name = "stripe"
  /\ \E customerId \in CustomerIds, paymentMethodId \in PaymentMethodIds :
       \E updateReply \in DefaultReplies(customerId, paymentMethodId),
          retrieveReply \in {Ok} \cup (VendorErrors \ {NotFoundError}) :
         LET args == [customerId |-> customerId, paymentMethodId |-> paymentMethodId]
             params == [id |-> customerId, default_payment_method |-> paymentMethodId]
         IN  IF ~updateReply.ok
             THEN /\ retrieveReply = Ok
                  /\ customers' = customers
                  /\ lastOp' = Called("setDefaultPaymentMethod", args,
                                  << VendorCall("customers.update", params, updateReply) >>,
                                  Rejected(createProviderError("stripe", updateReply,
                                                               Undefined)))
             ELSE LET customer == [customers[customerId] EXCEPT
                                     !.default_payment_method = paymentMethodId]
                      paymentMethod == paymentMethods[paymentMethodId]
                  IN  /\ customers' = [customers EXCEPT ![customerId] = customer]
                      /\ lastOp' =
                           Called("setDefaultPaymentMethod", args,
                             << VendorCall("customers.update", params, customer),
                                VendorCall("paymentMethods.retrieve",
                                           [id |-> paymentMethodId],
                                           IF retrieveReply.ok THEN paymentMethod
                                           ELSE retrieveReply) >>,
                             IF retrieveReply.ok
                             THEN Resolved(mapStripePaymentMethod(paymentMethod))
                             ELSE Rejected(createProviderError("stripe", retrieveReply,
                                                               Undefined)))
  /\ UNCHANGED <<name, config, client, intents, paymentMethods>>

(***************************************************************************)
(* List operations.                                                        *)
(***************************************************************************)
\* Largest number of records of one kind in an account that is already in use
\* when the adapter is constructed.
MaxListed == 4

\* limit || 10
DefaultLimit == 10

RECURSIVE Descending(_)
Descending(ids) ==
  IF ids = {} THEN << >>
  ELSE LET newest == CHOOSE i \in ids : \A j \in ids : j <= i
       IN  << newest >> \o Descending(ids \ {newest})

\* The order both vendors list in: newest first, deleted records left out.
NewestFirst(records) ==
  LET order == Descending({ i \in DOMAIN records :
                              ~(Has(records[i], "deleted") /\ records[i].deleted) })
  IN  [k \in 1..Len(order) |-> records[order[k]]]

Position(listing, id) == CHOOSE k \in 1..Len(listing) : listing[k].id = id

Min(a, b) == IF a <= b THEN a ELSE b
Max(a, b) == IF a >= b THEN a ELSE b

\* Stripe's cursor pagination over a listing: the page after starting_after,
\* the page before ending_before, or the first page.
StripeList(listing, params) ==
  LET first == IF Has(params, "starting_after")
               THEN Position(listing, params.starting_after) + 1
               ELSE IF Has(params, "ending_before")
               THEN Max(1, Position(listing, params.ending_before) - params.limit)
               ELSE 1
      last  == IF Has(params, "ending_before")
               THEN Position(listing, params.ending_before) - 1
               ELSE Min(Len(listing), first + params.limit - 1)
  IN  [ data     |-> SubSeq(listing, first, last),
        has_more |-> IF Has(params, "ending_before") THEN first > 1
                     ELSE last < Len(listing) ]

\* Razorpay's all({count}): the first count records.
RazorpayAll(listing, params) ==
  [ items |-> SubSeq(listing, 1, Min(Len(listing), params.count)) ]

\* CustomerListRequest / PaymentIntentListRequest: limit and at most one cursor
\* that names a record of the listing.
ListRequests(listing) ==
  { [limit |-> 2] }
    \cup { [limit |-> 2, startingAfter |-> listing[k].id] : k \in 1..Len(listing) }
    \cup { [limit |-> 2, endingBefore |-> listing[k].id] : k \in 1..Len(listing) }

\* {limit, starting_after, ending_before}; an undefined cursor is not sent.
StripeListParams(request) ==
  LET limit == [limit |-> NumberOrElse(request, "limit", DefaultLimit)]
  IN  IF Has(request, "startingAfter")
      THEN limit @@ [starting_after |-> request.startingAfter]
      ELSE IF Has(request, "endingBefore")
      THEN limit @@ [ending_before |-> request.endingBefore]
      ELSE limit

\* {count, from, to}
RazorpayListParams(request) ==
  LET count == [count |-> NumberOrElse(request, "limit", DefaultLimit)]
  IN  IF Has(request, "startingAfter")
      THEN count @@ [from |-> request.startingAfter]
      ELSE IF Has(request, "endingBefore")
      THEN count @@ [to |-> request.endingBefore]
      ELSE count

\* A variant that takes nextCursor from the first item of the page.
ListResponse_CursorFromFirst(data, items, has_more) ==
  LET page == [data |-> items, hasMore |-> has_more, totalCount |-> Len(data)]
  IN  IF Len(data) = 0 THEN page
      ELSE page @@ [ nextCursor |-> data[1].id, prevCursor |-> data[1].id ]

\* {data, hasMore, totalCount, nextCursor: data[length - 1]?.id, prevCursor: data[0]?.id}
ListResponse(data, items, has_more) ==
  LET page == [data |-> items, hasMore |-> has_more, totalCount |-> Len(data)]
  IN  IF Len(data) = 0 THEN page
      ELSE page @@ [ nextCursor |-> data[Len(data)].id, prevCursor |-> data[1].id ]

\* customers.data.map(customer => this.mapStripeCustomer(customer))
mapStripeCustomers(data) ==
  Array([k \in 1..Len(data) |-> mapStripeCustomer(data[k])])

\* paymentIntents.data.map(pi => this.mapStripePaymentIntent(pi))
mapStripePaymentIntents(data) ==
  Array([k \in 1..Len(data) |-> mapStripePaymentIntent(data[k])])

\* customers.items.map(customer => this.mapRazorpayCustomer(customer))
mapRazorpayCustomers(items) ==
  Array([k \in 1..Len(items) |-> mapRazorpayCustomer(items[k])])

\* orders.items.map(order => this.mapRazorpayOrder(order)): no customerId.
mapRazorpayOrders(items) ==
  Array([k \in 1..Len(items) |-> mapRazorpayOrder(items[k], Undefined)])

StripeProvider_listCustomers ==
  /\ name = "stripe"
  /\ \E request \in ListRequests(NewestFirst(customers)), reply \in VendorReplies :
       LET params == StripeListParams(request)
           list == StripeList(NewestFirst(customers), params)
       IN  lastOp' = Called("listCustomers", request,
                       << VendorCall("customers.list", params,
                                     IF reply.ok THEN list ELSE reply) >>,
                       IF reply.ok
                       THEN Resolved(ListResponse(list.data,
                                       mapStripeCustomers(list.data),
                                       list.has_more))
                       ELSE Rejected(createProviderError("stripe", reply, Undefined)))
  /\ UNCHANGED <<name, config, client, intents, customers, paymentMethods>>

StripeProvider_listPaymentIntents ==
  /\ name = "stripe"
  /\ \E request \in ListRequests(NewestFirst(intents)), reply \in VendorReplies :
       LET params == StripeListParams(request)
           list == StripeList(NewestFirst(intents), params)
       IN  lastOp' = Called("listPaymentIntents", request,
                       << VendorCall("paymentIntents.list", params,
                                     IF reply.ok THEN list ELSE reply) >>,
                       IF reply.ok
                       THEN Resolved(ListResponse(list.data,
                                       mapStripePaymentIntents(list.data),
                                       list.has_more))
                       ELSE Rejected(createProviderError("stripe", reply, Undefined)))
  /\ UNCHANGED <<name, config, client, intents, customers, paymentMethods>>

\* The requests tried on Razorpay carry no cursor: from and to are timestamps
\* there, not record ids.
RazorpayProvider_listCustomers ==
  /\ name = "razorpay"
  /\ \E request \in { [limit |-> 2] }, reply \in VendorReplies :
       LET params == RazorpayListParams(request)
           list == RazorpayAll(NewestFirst(customers), params)
       IN  lastOp' = Called("listCustomers", request,
                       << VendorCall("customers.all", params,
                                     IF reply.ok THEN list ELSE reply) >>,
                       IF reply.ok
                       THEN Resolved(mapRazorpayCustomers(list.items))
                       ELSE Rejected(createProviderError("razorpay", reply, Undefined)))
  /\ UNCHANGED <<name, config, client, intents, customers, paymentMethods>>

RazorpayProvider_listPaymentIntents ==
  /\ name = "razorpay"
  /\ \E request \in { [limit |-> 2] }, reply \in VendorReplies :
       LET params == RazorpayListParams(request)
           list == RazorpayAll(NewestFirst(intents), params)
       IN  lastOp' = Called("listPaymentIntents", request,
                       << VendorCall("orders.all", params,
                                     IF reply.ok THEN list ELSE reply) >>,
                       IF reply.ok
                       THEN Resolved(mapRazorpayOrders(list.items))
                       ELSE Rejected(createProviderError("razorpay", reply, Undefined)))
  /\ UNCHANGED <<name, config, client, intents, customers, paymentMethods>>

(***************************************************************************)
(* init and configure.                                                     *)
(***************************************************************************)
\* The option objects configure is called with.
ConfigureOptions == { [timeout |-> 1000], [retries |-> 1] }

\* A variant of configure that merges the options into this.config.
Configured_Merged(cfg, options) == options @@ cfg

\* this.config after configure(options): the body is empty.
Configured(cfg, options) == cfg

\* async init() {}
init ==
  /\ lastOp' = Called("init", << >>, << >>, Resolved(UndefinedValue))
  /\ UNCHANGED <<name, config, client, intents, customers, paymentMethods>>

\* async configure(options) {}
configure ==
  /\ \E options \in ConfigureOptions :
       /\ config' = Configured(config, options)
       /\ lastOp' = Called("configure", options, << >>, Resolved(UndefinedValue))
  /\ UNCHANGED <<name, client, intents, customers, paymentMethods>>

(***************************************************************************)
(* Webhooks.                                                               *)
(***************************************************************************)
Secrets == {"whsec_a", "whsec_b"}

EmptyPayload == ""
GarbagePayload == "not json"
BarePayload == "{}"
RazorpayEventPayload == "{entity:event,event:payment.captured,created_at:1700,payload:{...}}"
StripeEventPayload == "{id:evt_1,type:payment_intent.succeeded,created:1700,data:{...},livemode:false}"

\* The raw request bodies tried.
Payloads ==
  {EmptyPayload, GarbagePayload, BarePayload, RazorpayEventPayload, StripeEventPayload}

\* JSON.parse(payload): the parsed object, or a SyntaxError.
JSONParse(payload) ==
  CASE payload = BarePayload ->
         [ok |-> TRUE, value |-> <<>>]
    [] payload = RazorpayEventPayload ->
         [ok |-> TRUE,
          value |-> [entity |-> "event", event |-> "payment.captured",
                     created_at |-> 1700, payload |-> [payment |-> "pay_1"]]]
    [] payload = StripeEventPayload ->
         [ok |-> TRUE,
          value |-> [id |-> "evt_1", type |-> "payment_intent.succeeded",
                     created |-> 1700, data |-> [object |-> "pi_1"],
                     livemode |-> FALSE]]
    [] OTHER ->
         [ok |-> FALSE, message |-> "Unexpected token"]

\* crypto.createHmac('sha256', secret).update(payload).digest('hex'): the
\* digest is held as the pair it is computed from (no two inputs collide).
HmacSha256Hex(secret, payload) == [hmac |-> <<secret, payload>>]

\* A Stripe-Signature header "t=<timestamp>,v1=<hmac>": whether the timestamp
\* is within the SDK's tolerance, and the digest.
StripeHeader(secret, payload, recent) ==
  [recent |-> recent, v1 |-> HmacSha256Hex(secret, payload)]

\* A signature string in neither vendor's format.
MalformedSignature == [malformed |-> TRUE]

\* A hex digest written with the letters A-F in upper case: another string.
UpperCase(hex) == [upper |-> hex]

OtherSecret(secret) == CHOOSE other \in Secrets : other # secret
OtherPayload(payload) ==
  IF payload = BarePayload THEN GarbagePayload ELSE BarePayload

\* The signatures a request may carry for a body and an endpoint secret: the
\* sender's, one made with another secret, one made for another body
\* (the body was tampered with), and a malformed one; for Razorpay also the
\* sender's in upper case, for Stripe also the sender's with an old timestamp.
Signatures(provider, payload, secret) ==
  IF provider = "razorpay"
  THEN { HmacSha256Hex(secret, payload),
         HmacSha256Hex(OtherSecret(secret), payload),
         HmacSha256Hex(secret, OtherPayload(payload)),
         UpperCase(HmacSha256Hex(secret, payload)),
         MalformedSignature }
  ELSE { StripeHeader(secret, payload, TRUE),
         StripeHeader(OtherSecret(secret), payload, TRUE),
         StripeHeader(secret, OtherPayload(payload), TRUE),
         StripeHeader(secret, payload, FALSE),
         MalformedSignature }

\* stripe.webhooks.constructEvent(payload, header, secret): verifies the
\* header, then parses the body; throws on either failure.
constructEvent(payload, header, secret) ==
  IF Has(header, "malformed")
  THEN [ok |-> FALSE, message |-> "Unable to extract timestamp and signatures from header"]
  ELSE IF header.v1 # HmacSha256Hex(secret, payload)
  THEN [ok |-> FALSE, message |-> "No signatures found matching the expected signature for payload"]
  ELSE IF ~header.recent
  THEN [ok |-> FALSE, message |-> "Timestamp outside the tolerance zone"]
  ELSE JSONParse(payload)

StripeVerifyWebhook(payload, signature, secret) ==
  Resolved(constructEvent(payload, signature, secret).ok)

\* A variant that parses the body without verifying the header.
StripeParseWebhook_Unverified(payload, signature, secret) ==
  LET event == JSONParse(payload)
  IN  IF event.ok
      THEN Resolved([ id       |-> Get(event.value, "id"),
                      type     |-> Get(event.value, "type"),
                      data     |-> Get(event.value, "data"),
                      created  |-> NewDate(event.value, "created"),
                      provider |-> "stripe",
                      livemode |-> Get(event.value, "livemode") ])
      ELSE Rejected(createProviderError("stripe", event, "Webhook parsing failed"))

StripeParseWebhook(payload, signature, secret) ==
  LET event == constructEvent(payload, signature, secret)
  IN  IF event.ok
      THEN Resolved([ id       |-> Get(event.value, "id"),
                      type     |-> Get(event.value, "type"),
                      data     |-> Get(event.value, "data"),
                      created  |-> NewDate(event.value, "created"),
                      provider |-> "stripe",
                      livemode |-> Get(event.value, "livemode") ])
      ELSE Rejected(createProviderError("stripe", event, "Webhook parsing failed"))

\* A variant that compares the hex digits without regard to case.
RazorpayVerifyWebhook_AnyCase(payload, signature, secret) ==
  Resolved(\/ signature = HmacSha256Hex(secret, payload)
           \/ signature = UpperCase(HmacSha256Hex(secret, payload)))

\* signature === expectedSignature, the lowercase hex digest.
RazorpayVerifyWebhook(payload, signature, secret) ==
  Resolved(signature = HmacSha256Hex(secret, payload))

\* apiKey.startsWith(prefix)
startsWith(apiKey, prefix) == apiKey[1] = prefix

RazorpayParseWebhook(payload, apiKey) ==
  LET event == JSONParse(payload)
  IN  IF event.ok
      THEN Resolved([ id       |-> OrElse(Get(event.value, "id"), Get(event.value, "entity")),
                      type     |-> Get(event.value, "event"),
                      data     |-> IF Has(event.value, "payload")
                                   THEN event.value.payload ELSE event.value,
                      created  |-> NewDate(event.value, "created_at"),
                      provider |-> "razorpay",
                      livemode |-> ~startsWith(apiKey, "rzp_test_") ])
      ELSE Rejected(createProviderError("razorpay", event, "Webhook parsing failed"))

WebhookArgs(payload, signature, secret) ==
  [payload |-> payload, signature |-> signature, secret |-> secret]

verifyWebhook ==
  /\ \E payload \in Payloads, secret \in Secrets :
       \E signature \in Signatures(name, payload, secret) :
         lastOp' = Called("verifyWebhook", WebhookArgs(payload, signature, secret), <<>>,
                     IF name = "stripe"
                     THEN StripeVerifyWebhook(payload, signature, secret)
                     ELSE RazorpayVerifyWebhook(payload, signature, secret))
  /\ UNCHANGED <<name, config, client, intents, customers, paymentMethods>>

\* A variant in which RazorpayProvider verifies the signature before parsing.
parseWebhook_Verified ==
  /\ \E payload \in Payloads, secret \in Secrets :
       \E signature \in Signatures(name, payload, secret) :
         lastOp' = Called("parseWebhook", WebhookArgs(payload, signature, secret), <<>>,
                     IF name = "stripe"
                     THEN StripeParseWebhook(payload, signature, secret)
                     ELSE IF RazorpayVerifyWebhook(payload, signature, secret).value
                     THEN RazorpayParseWebhook(payload, config.apiKey)
                     ELSE Rejected(createProviderError("razorpay",
                                     [message |-> "Invalid signature"],
                                     "Webhook parsing failed")))
  /\ UNCHANGED <<name, config, client, intents, customers, paymentMethods>>

parseWebhook ==
  /\ \E payload \in Payloads, secret \in Secrets :
       \E signature \in Signatures(name, payload, secret) :
         lastOp' = Called("parseWebhook", WebhookArgs(payload, signature, secret), <<>>,
                     IF name = "stripe"
                     THEN StripeParseWebhook(payload, signature, secret)
                     ELSE RazorpayParseWebhook(payload, config.apiKey))
  /\ UNCHANGED <<name, config, client, intents, customers, paymentMethods>>

(***************************************************************************)
(* Health check.                                                           *)
(***************************************************************************)
\* The status the Razorpay probe treats as "the client works".
ProbeNotFound == 404

StripeHealthCheck(reply) == Resolved(reply.ok)

\* A variant that takes any HTTP answer for a working client.
RazorpayHealthCheck_AnyStatus(reply) ==
  Resolved(reply.ok \/ Has(reply, "statusCode"))

RazorpayHealthCheck(reply) ==
  Resolved(reply.ok \/ (Has(reply, "statusCode") /\ reply.statusCode = ProbeNotFound))

healthCheck ==
  /\ \E reply \in VendorReplies :
       lastOp' = Called("healthCheck", <<>>,
                   << VendorCall(IF name = "stripe" THEN "balance.retrieve" ELSE "payments.fetch",
                                 IF name = "stripe" THEN <<>> ELSE [id |-> "dummy"],
                                 reply) >>,
                   IF name = "stripe" THEN StripeHealthCheck(reply)
                   ELSE RazorpayHealthCheck(reply))
  /\ UNCHANGED <<name, config, client, intents, customers, paymentMethods>>

(***************************************************************************)
(* Operations without a vendor call.                                       *)
(***************************************************************************)
\* "Placeholder implementations for remaining interfaces": subscriptions,
\* invoices, refunds, disputes and usage metrics, the same list in both classes.
PlaceholderOps ==
  { "createSubscription", "getSubscription", "updateSubscription",
    "cancelSubscription", "listSubscriptions",
    "createInvoice", "getInvoice", "updateInvoice", "finalizeInvoice",
    "payInvoice", "listInvoices",
    "createRefund", "getRefund", "listRefunds",
    "getDispute", "listDisputes", "updateDispute",
    "trackUsage", "trackAIUsage", "getUsageMetrics", "getAIUsageMetrics" }

\* A variant whose list operations answer with an empty list.
Placeholder_EmptyList(provider, op) ==
  Called(op, <<>>, <<>>,
    IF op \in {"listSubscriptions", "listInvoices", "listRefunds", "listDisputes"}
    THEN Resolved(Array(<<>>))
    ELSE Rejected(CarnilError("Not implemented", "NOT_IMPLEMENTED")))

\* throw new CarnilError('Not implemented', 'NOT_IMPLEMENTED'), outside any try.
Placeholder(provider, op) ==
  Called(op, <<>>, <<>>, Rejected(CarnilError("Not implemented", "NOT_IMPLEMENTED")))

placeholderOperation ==
  /\ \E op \in PlaceholderOps : lastOp' = Placeholder(name, op)
  /\ UNCHANGED <<name, config, client, intents, customers, paymentMethods>>

\* The RazorpayProvider methods whose try block only throws NOT_SUPPORTED.
RazorpayUnsupportedOps ==
  { "attachPaymentMethod", "detachPaymentMethod", "setDefaultPaymentMethod",
    "updatePaymentIntent", "cancelPaymentIntent", "capturePaymentIntent" }

UnsupportedMessage(op) ==
  CASE op = "updatePaymentIntent" -> "Orders cannot be updated in Razorpay"
    [] op = "cancelPaymentIntent" -> "Orders cannot be cancelled in Razorpay"
    [] OTHER                      -> "Not supported in Razorpay"

\* A variant that throws a plain Error instead of a CarnilError.
RazorpayUnsupported_PlainError(op, args) ==
  Called(op, args, <<>>,
    Rejected(createProviderError("razorpay",
               [ok |-> FALSE, message |-> UnsupportedMessage(op)], Undefined)))

\* try { throw new CarnilError(..., 'NOT_SUPPORTED') }
\* catch (error) { throw createProviderError('razorpay', error) }
RazorpayUnsupported(op, args) ==
  Called(op, args, <<>>,
    Rejected(createProviderError("razorpay",
               CarnilError(UnsupportedMessage(op), "NOT_SUPPORTED"), Undefined)))

RazorpayProvider_unsupportedOperation ==
  /\ name = "razorpay"
  /\ \E op \in RazorpayUnsupportedOps, id \in IntentIds :
       lastOp' = RazorpayUnsupported(op, [id |-> id])
  /\ UNCHANGED <<name, config, client, intents, customers, paymentMethods>>

\* try { return []; } catch ...
RazorpayListPaymentMethods(params) ==
  Called("listPaymentMethods", params, <<>>, Resolved(Array(<<>>)))

RazorpayProvider_listPaymentMethods ==
  /\ name = "razorpay"
  /\ \E customerId \in {Undefined, "cus_1"} :
       lastOp' = RazorpayListPaymentMethods([customerId |-> customerId])
  /\ UNCHANGED <<name, config, client, intents, customers, paymentMethods>>

\* The vendor's side: a payment made on the vendor's page, a capture, an
\* expiry ... moves an intent / order to another status.
VendorStatusChange ==
  /\ \E id \in DOMAIN intents, status \in VendorStatuses(name) :
       /\ status # intents[id].status
       /\ intents' = [intents EXCEPT ![id].status = status]
  /\ UNCHANGED <<name, config, client, customers, paymentMethods, lastOp>>

(***************************************************************************)
(* Later steps of a payment intent: update, capture, confirm.              *)
(***************************************************************************)
\* Partial<CreatePaymentIntentRequest> values passed to updatePaymentIntent:
\* a new amount (30.00), the amount 0, and an update that names no amount.
UpdatePaymentIntentRequests ==
  { [amount |-> 30000], [amount |-> 0], [paymentMethodId |-> "pm_1"] }

\* updates.amount ? Math.round(updates.amount * 100) : undefined, beside the
\* fields handed through; a number field that is undefined is left out of the
\* parameters, as the SDK leaves it out of the request.
StripeUpdateParams(updates) ==
  LET rest == [ currency       |-> Get(updates, "currency"),
                payment_method |-> Get(updates, "paymentMethodId") ]
  IN  IF Has(updates, "amount") /\ updates.amount # 0
      THEN [ amount         |-> MathRoundTimes100(updates.amount),
             currency       |-> rest.currency,
             payment_method |-> rest.payment_method ]
      ELSE rest

\* stripe.paymentIntents.update: the fields sent replace the intent's; an
\* intent that gets its payment method is ready to be confirmed.
StripeUpdatedIntent(intent, params) ==
  [ intent EXCEPT
      !.amount = IF Has(params, "amount") THEN params.amount ELSE @,
      !.currency = IF params.currency # Undefined THEN params.currency ELSE @,
      !.payment_method = IF params.payment_method # Undefined
                         THEN params.payment_method ELSE @,
      !.status = IF params.payment_method # Undefined /\ @ = "requires_payment_method"
                 THEN "requires_confirmation" ELSE @ ]

\* Stripe lets an intent be updated until it is processing.
StripeUpdateReplies(id) ==
  (IF id \notin DOMAIN intents THEN {NotFoundError}
   ELSE IF intents[id].status \in { "requires_payment_method", "requires_confirmation",
                                    "requires_action" }
   THEN {Ok} ELSE {InvalidRequestError})
    \cup (VendorErrors \ {NotFoundError})

StripeProvider_updatePaymentIntent ==
  /\ name = "stripe"
  /\ \E id \in IntentIds, updates \in UpdatePaymentIntentRequests :
       \E reply \in StripeUpdateReplies(id) :
         LET params == StripeUpdateParams(updates)
             args   == [id |-> id, updates |-> updates]
         IN  IF reply.ok
             THEN LET updated == StripeUpdatedIntent(intents[id], params)
                  IN  /\ intents' = [intents EXCEPT ![id] = updated]
                      /\ lastOp' = Called("updatePaymentIntent", args,
                                      << VendorCall("paymentIntents.update", params, updated) >>,
                                      Resolved(mapStripePaymentIntent(updated)))
             ELSE /\ intents' = intents
                  /\ lastOp' = Called("updatePaymentIntent", args,
                                  << VendorCall("paymentIntents.update", params, reply) >>,
                                  Rejected(createProviderError("stripe", reply, Undefined)))
  /\ UNCHANGED <<name, config, client, customers, paymentMethods>>

\* capturePaymentIntent(id, amount?): no amount, the amount 0, and 10.00.
CaptureArgs(id) ==
  { [id |-> id], [id |-> id, amount |-> 0], [id |-> id, amount |-> 10000] }

\* amount ? Math.round(amount * 100) : undefined
StripeCaptureParams(args) ==
  IF Has(args, "amount") /\ args.amount # 0
  THEN [amount_to_capture |-> MathRoundTimes100(args.amount)]
  ELSE << >>

\* Stripe captures an intent that requires_capture, up to its amount; without
\* amount_to_capture it captures the whole amount.
StripeCaptureReplies(id, params) ==
  (IF id \notin DOMAIN intents THEN {NotFoundError}
   ELSE IF /\ intents[id].status = "requires_capture"
           /\ Has(params, "amount_to_capture")
                => params.amount_to_capture <= intents[id].amount
   THEN {Ok} ELSE {InvalidRequestError})
    \cup (VendorErrors \ {NotFoundError})

StripeProvider_capturePaymentIntent ==
  /\ name = "stripe"
  /\ \E id \in IntentIds : \E args \in CaptureArgs(id) :
       LET params == StripeCaptureParams(args)
       IN  \E reply \in StripeCaptureReplies(id, params) :
             IF reply.ok
             THEN LET captured == [intents[id] EXCEPT !.status = "succeeded"]
                  IN  /\ intents' = [intents EXCEPT ![id] = captured]
                      /\ lastOp' = Called("capturePaymentIntent", args,
                                      << VendorCall("paymentIntents.capture", params, captured) >>,
                                      Resolved(mapStripePaymentIntent(captured)))
             ELSE /\ intents' = intents
                  /\ lastOp' = Called("capturePaymentIntent", args,
                                  << VendorCall("paymentIntents.capture", params, reply) >>,
                                  Rejected(createProviderError("stripe", reply, Undefined)))
  /\ UNCHANGED <<name, config, client, customers, paymentMethods>>

\* The payment method ids confirmPaymentIntent is given.
ConfirmPaymentMethodIds == {Undefined, "pm_1"}

\* A variant that marks the order as paid at the vendor.
RazorpayProvider_confirmPaymentIntent_Pays ==
  /\ name = "razorpay"
  /\ \E id \in IntentIds, paymentMethodId \in ConfirmPaymentMethodIds :
       \E reply \in FetchReplies(id) :
         LET args == [id |-> id, paymentMethodId |-> paymentMethodId]
         IN  IF reply.ok
             THEN LET paid == [intents[id] EXCEPT !.status = "paid"]
                  IN  /\ intents' = [intents EXCEPT ![id] = paid]
                      /\ lastOp' = Called("confirmPaymentIntent", args,
                                      << VendorCall("orders.fetch", [id |-> id], paid) >>,
                                      Resolved(mapRazorpayOrder(paid, Undefined)))
             ELSE /\ intents' = intents
                  /\ lastOp' = Called("confirmPaymentIntent", args,
                                  << VendorCall("orders.fetch", [id |-> id], reply) >>,
                                  Rejected(createProviderError("razorpay", reply, Undefined)))
  /\ UNCHANGED <<name, config, client, customers, paymentMethods>>

\* confirmPaymentIntent(id, _paymentMethodId): orders.fetch(id), mapped
\* without a customerId.
RazorpayProvider_confirmPaymentIntent ==
  /\ name = "razorpay"
  /\ \E id \in IntentIds, paymentMethodId \in ConfirmPaymentMethodIds :
       \E reply \in FetchReplies(id) :
         lastOp' = Called("confirmPaymentIntent",
                     [id |-> id, paymentMethodId |-> paymentMethodId],
                     << VendorCall("orders.fetch", [id |-> id],
                                   IF reply.ok THEN intents[id] ELSE reply) >>,
                     IF reply.ok
                     THEN Resolved(mapRazorpayOrder(intents[id], Undefined))
                     ELSE Rejected(createProviderError("razorpay", reply, Undefined)))
  /\ UNCHANGED <<name, config, client, intents, customers, paymentMethods>>

\* Customer-facing payment operations against the vendor account.
Next ==
  \/ StripeProvider_createPaymentIntent
  \/ StripeProvider_getPaymentIntent
  \/ RazorpayProvider_createPaymentIntent
  \/ RazorpayProvider_getPaymentIntent
  \/ placeholderOperation
  \/ RazorpayProvider_unsupportedOperation
  \/ RazorpayProvider_listPaymentMethods
  \/ VendorStatusChange

Spec == Init /\ [][Next]_vars

\* The "Base Provider Implementation" operations, which neither read nor
\* change the vendor account's records.
BaseNext ==
  \/ verifyWebhook
  \/ parseWebhook
  \/ healthCheck

BaseSpec == Init /\ [][BaseNext]_vars

\* Customer and payment-method operations against the vendor account.
CustomerNext ==
  \/ StripeProvider_createCustomer
  \/ StripeProvider_getCustomer
  \/ StripeProvider_retrieveCustomer
  \/ StripeProvider_updateCustomer
  \/ StripeProvider_deleteCustomer
  \/ StripeProvider_listCustomers
  \/ StripeProvider_listPaymentMethods
  \/ StripeProvider_attachPaymentMethod
  \/ StripeProvider_detachPaymentMethod
  \/ StripeProvider_setDefaultPaymentMethod
  \/ RazorpayProvider_createCustomer
  \/ RazorpayProvider_getCustomer
  \/ RazorpayProvider_retrieveCustomer
  \/ RazorpayProvider_updateCustomer
  \/ RazorpayProvider_deleteCustomer
  \/ RazorpayProvider_listCustomers

CustomerSpec == Init /\ [][CustomerNext]_vars

\* The records of an account that has been in use: customers with and without
\* metadata, payment intents / orders, and for Stripe the saved cards of
\* customer 1, with metadata {} or null.
ListedCustomer(provider, id) ==
  LET request == IF id % 2 = 1
                 THEN CustomerRequest("ann@example.com", "Ann", Map({<<"plan", "pro">>}))
                 ELSE CustomerRequest("ann@example.com", "Ann", UndefinedValue)
  IN  IF provider = "stripe"
      THEN StripeNewCustomer(id, StripeCustomerParams(request))
      ELSE RazorpayNewCustomer(id, RazorpayCustomerParams(request))

ListedIntent(provider, id) ==
  LET request == Request(20000, "usd", Undefined, Undefined)
  IN  IF provider = "stripe"
      THEN StripeNewIntent(id, StripeCreateParams(request))
      ELSE RazorpayNewOrder(id, RazorpayCreateParams(request))

ListedCards(provider, count) ==
  IF provider = "stripe"
  THEN [id \in 1..count |-> StripeCard(id, 1, IF id % 2 = 1 THEN EmptyMap ELSE Null)]
  ELSE << >>

\* The adapter is constructed on an account that holds count records of each kind.
ListInit ==
  /\ name \in ProviderNames
  /\ config \in Configs(name)
  /\ client = NewClient(name, config)
  /\ \E count \in 0..MaxListed :
       /\ customers = [id \in 1..count |-> ListedCustomer(name, id)]
       /\ intents = [id \in 1..count |-> ListedIntent(name, id)]
       /\ paymentMethods = ListedCards(name, count)
  /\ lastOp = NoCall

ListNext ==
  \/ StripeProvider_listCustomers
  \/ StripeProvider_listPaymentIntents
  \/ StripeProvider_listPaymentMethods
  \/ RazorpayProvider_listCustomers
  \/ RazorpayProvider_listPaymentIntents
  \/ RazorpayProvider_listPaymentMethods

ListSpec == ListInit /\ [][ListNext]_vars

\* ProviderConfig with the optional timeout (ms) and retries.
TimeoutOptions == {5000}
RetryOptions == {0, 5}

ConfigsWithOptions(provider) ==
  Configs(provider)
    \cup { cfg @@ [timeout |-> t] : cfg \in Configs(provider), t \in TimeoutOptions }
    \cup { cfg @@ [retries |-> r] : cfg \in Configs(provider), r \in RetryOptions }
    \cup { cfg @@ [timeout |-> t, retries |-> r] :
             cfg \in Configs(provider), t \in TimeoutOptions, r \in RetryOptions }

\* The adapter is constructed on an account that holds up to MaxIntents
\* payment intents.
IntentInit ==
  /\ name \in ProviderNames
  /\ config \in Configs(name)
  /\ client = NewClient(name, config)
  /\ \E count \in 0..MaxIntents :
       intents = [id \in 1..count |-> ListedIntent(name, id)]
  /\ customers = <<>>
  /\ paymentMethods = <<>>
  /\ lastOp = NoCall

\* Reading and moving on the payment intents the account holds.
IntentNext ==
  \/ StripeProvider_getPaymentIntent
  \/ StripeProvider_updatePaymentIntent
  \/ StripeProvider_capturePaymentIntent
  \/ RazorpayProvider_getPaymentIntent
  \/ RazorpayProvider_confirmPaymentIntent
  \/ VendorStatusChange

IntentSpec == IntentInit /\ [][IntentNext]_vars

\* Construction with any of these configs.
ConfigInit ==
  /\ name \in ProviderNames
  /\ config \in ConfigsWithOptions(name)
  /\ client = NewClient(name, config)
  /\ intents = <<>>
  /\ customers = <<>>
  /\ paymentMethods = CardsAtStart(name)
  /\ lastOp = NoCall

\* The operations that concern the instance itself.
ConfigNext ==
  \/ init
  \/ configure
  \/ healthCheck
  \/ parseWebhook

ConfigSpec == ConfigInit /\ [][ConfigNext]_vars

(***************************************************************************)
(* Properties.                                                             *)
(***************************************************************************)
ResolvedOp(ops) == lastOp.op \in ops /\ lastOp.outcome.kind = "resolved"
RejectedOp(ops) == lastOp.op \in ops /\ lastOp.outcome.kind = "rejected"

\* ISO 4217 minor-unit digits of the currencies tried.
CurrencyDecimals(currency) ==
  CASE currency = "jpy" -> 0
    [] currency = "kwd" -> 3
    [] OTHER            -> 2

\* An amount (in thousandths) that has no digit beyond the currency's precision.
Representable(amount, currency) ==
  CASE CurrencyDecimals(currency) = 0 -> amount % 1000 = 0
    [] CurrencyDecimals(currency) = 2 -> amount % 10 = 0
    [] OTHER                          -> TRUE

\* C1: for every supported currency and every amount representable at the
\* currency's precision, the PaymentIntent createPaymentIntent returns (the
\* vendor echoing the minor-unit amount it was sent) carries the request's amount.
C1_RoundTripExact ==
  ( /\ ResolvedOp({"createPaymentIntent"})
    /\ lastOp.args.currency \in supportedCurrencies(name)
    /\ Representable(lastOp.args.amount, lastOp.args.currency) )
  => lastOp.outcome.value.amount = lastOp.args.amount

PaymentIntentOps == {"createPaymentIntent", "getPaymentIntent"}

\* C3: RazorpayProvider maps every order status the vendor reports to one
\* normalized status without throwing: created, attempted, paid and failed by
\* the table, any other value to requires_payment_method.
C3_RazorpayStatusTotal ==
  ( /\ name = "razorpay"
    /\ lastOp.op \in PaymentIntentOps
    /\ Has(lastOp.calls[1].reply, "status") )
  => LET vendor == lastOp.calls[1].reply.status
         status == lastOp.outcome.value.status
     IN  /\ lastOp.outcome.kind = "resolved"
         /\ status \in NormalizedStatuses
         /\ vendor = "created" => status = "requires_payment_method"
         /\ vendor = "attempted" => status = "processing"
         /\ vendor = "paid" => status = "succeeded"
         /\ vendor = "failed" => status = "failed"
         /\ vendor \notin RazorpayKnownStatuses => status = "requires_payment_method"

C3_Witness ==
  /\ name = "razorpay"
  /\ ResolvedOp({"getPaymentIntent"})
  /\ lastOp.calls[1].reply.status = "some_future_status"
  /\ lastOp.outcome.value.status = "requires_payment_method"

\* C4: every PaymentIntent a StripeProvider operation returns has a status in
\* the closed normalized set, whatever status the vendor reports.
C4_StripeStatusNormalized ==
  (name = "stripe" /\ ResolvedOp(PaymentIntentOps))
  => lastOp.outcome.value.status \in NormalizedStatuses

\* The signature the sender of this body computes with this secret.
SenderSignature(provider, payload, secret) ==
  IF provider = "razorpay" THEN HmacSha256Hex(secret, payload)
  ELSE StripeHeader(secret, payload, TRUE)

\* C5: verifyWebhook never throws, and resolves to false for an empty payload,
\* a wrong secret, a tampered payload or a malformed signature.
C5_VerifyRejectsBadInput ==
  lastOp.op = "verifyWebhook" =>
    /\ lastOp.outcome.kind = "resolved"
    /\ ( \/ lastOp.args.payload = EmptyPayload
         \/ lastOp.args.signature
              # SenderSignature(name, lastOp.args.payload, lastOp.args.secret) )
       => lastOp.outcome.value = FALSE

\* A body that is JSON and holds the fields the adapter reads the event's
\* id, type and creation time from.
HasRequiredFields(provider, payload) ==
  LET event == JSONParse(payload)
  IN  /\ event.ok
      /\ IF provider = "stripe"
         THEN {"id", "type", "created"} \subseteq DOMAIN event.value
         ELSE /\ {"event", "created_at"} \subseteq DOMAIN event.value
              /\ Has(event.value, "id") \/ Has(event.value, "entity")

\* C6: parseWebhook returns only events whose id, type and created are
\* present and well-formed; a body that is not JSON or lacks the required
\* fields fails with a parse error.
C6_ParseWebhookChecksFields ==
  lastOp.op = "parseWebhook" =>
    /\ lastOp.outcome.kind = "resolved" =>
         /\ lastOp.outcome.value.id # Undefined
         /\ lastOp.outcome.value.type # Undefined
         /\ lastOp.outcome.value.created.valid
    /\ ~HasRequiredFields(name, lastOp.args.payload) =>
         /\ lastOp.outcome.kind = "rejected"
         /\ lastOp.outcome.error.code = "PARSE_ERROR"

\* C7: healthCheck never throws; it is true exactly when the probe call
\* succeeds or, on Razorpay, fails with statusCode 404, and false otherwise.
C7_HealthCheckBoolean ==
  lastOp.op = "healthCheck" =>
    LET reply == lastOp.calls[1].reply
    IN  /\ lastOp.outcome.kind = "resolved"
        /\ lastOp.outcome.value
             = ( \/ reply.ok
                 \/ /\ name = "razorpay"
                    /\ Has(reply, "statusCode")
                    /\ reply.statusCode = 404 )

C7_Witness ==
  /\ name = "razorpay"
  /\ ResolvedOp({"healthCheck"})
  /\ ~lastOp.calls[1].reply.ok
  /\ Has(lastOp.calls[1].reply, "statusCode")
  /\ lastOp.calls[1].reply.statusCode = 404
  /\ lastOp.outcome.value = TRUE

C10_RazorpayUnsupportedAllFail ==
  ( /\ name = "razorpay"
    /\ lastOp.op \in RazorpayUnsupportedOps \cup {"listPaymentMethods"} )
  => /\ lastOp.outcome.kind = "rejected"
     /\ lastOp.outcome.error.code = "NOT_SUPPORTED"

\* C11: on RazorpayProvider a deleteCustomer(id) that resolves is followed by
\* a getCustomer(id) that is rejected (NOT_FOUND) or returns the customer with
\* deleted = true: the delete was a soft-delete at the vendor, never a no-op.
C11_DeleteCustomerSoftDeletes ==
  [][ ( /\ name = "razorpay"
        /\ ResolvedOp({"deleteCustomer"})
        /\ lastOp'.op = "getCustomer"
        /\ lastOp'.args.id = lastOp.args.id )
      => \/ lastOp'.outcome.kind = "rejected"
         \/ lastOp'.outcome.value.deleted ]_vars

\* The vendor calls of the last operation that failed.
FailedCalls ==
  { k \in DOMAIN lastOp.calls :
      Has(lastOp.calls[k].reply, "ok") /\ ~lastOp.calls[k].reply.ok }

PageOps == {"listCustomers", "listPaymentIntents"}
ListOps == PageOps \cup {"listPaymentMethods"}
EntityOps ==
  { "createCustomer", "getCustomer", "updateCustomer",
    "attachPaymentMethod", "setDefaultPaymentMethod",
    "createPaymentIntent", "getPaymentIntent" }

\* The normalized entities the last operation returned, in order.
ReturnedEntities ==
  IF lastOp.outcome.kind # "resolved" THEN << >>
  ELSE IF lastOp.op \in ListOps
  THEN IF Has(lastOp.outcome.value, "data")
       THEN lastOp.outcome.value.data.items
       ELSE lastOp.outcome.value.items
  ELSE IF lastOp.op \in EntityOps THEN << lastOp.outcome.value >>
  ELSE << >>

\* The vendor records those entities were mapped from, in the same order.
VendorRecords ==
  IF lastOp.outcome.kind # "resolved" \/ lastOp.calls = << >> THEN << >>
  ELSE LET reply == lastOp.calls[Len(lastOp.calls)].reply
       IN  IF lastOp.op \in ListOps
           THEN IF Has(reply, "data") THEN reply.data ELSE reply.items
           ELSE IF lastOp.op \in EntityOps THEN << reply >>
           ELSE << >>

\* C13: every Customer, PaymentMethod and PaymentIntent an operation returns
\* has provider = the adapter's name and providerId = id = the id of the vendor
\* record it was mapped from.
C13_ProviderAndProviderId ==
  /\ Len(ReturnedEntities) = Len(VendorRecords)
  /\ \A k \in DOMAIN ReturnedEntities :
       /\ ReturnedEntities[k].provider = name
       /\ ReturnedEntities[k].providerId = VendorRecords[k].id
       /\ ReturnedEntities[k].id = ReturnedEntities[k].providerId

C13_Witness ==
  /\ name = "razorpay"
  /\ ResolvedOp({"listCustomers"})
  /\ Len(ReturnedEntities) = 2
  /\ ReturnedEntities[1].providerId = VendorRecords[1].id
  /\ ReturnedEntities[1].provider = "razorpay"

\* C14: the metadata of every entity an operation returns is a map, the empty
\* map when the vendor record has no metadata / notes; never null or undefined.
C14_MetadataIsMap ==
  \A k \in DOMAIN ReturnedEntities :
    /\ ReturnedEntities[k].metadata.kind = "map"
    /\ ( \/ Has(VendorRecords[k], "metadata") /\ VendorRecords[k].metadata = Null
         \/ ~(Has(VendorRecords[k], "metadata") \/ Has(VendorRecords[k], "notes")) )
       => ReturnedEntities[k].metadata = EmptyMap

\* The ids of a sequence of records or entities.
Ids(records) == [k \in DOMAIN records |-> records[k].id]

\* The vendor's listing an operation pages through.
ListingOf(op) ==
  NewestFirst(IF op = "listCustomers" THEN customers ELSE intents)

\* C15: on StripeProvider, when listCustomers / listPaymentIntents with limit 2
\* returns a page with a nextCursor and the next call is the same operation with
\* limit 2 and startingAfter = that nextCursor on the unchanged collection, the
\* two pages together are the run of the vendor's listing that starts at the
\* first page's first item and ends up to two items after the first page's
\* last: no overlap, no gap.
C15_PaginationRoundTrip ==
  [][ ( /\ name = "stripe"
        /\ ResolvedOp(PageOps)
        /\ lastOp.args.limit = 2
        /\ Has(lastOp.outcome.value, "nextCursor")
        /\ lastOp'.op = lastOp.op
        /\ lastOp'.args = [limit |-> 2, startingAfter |-> lastOp.outcome.value.nextCursor]
        /\ lastOp'.outcome.kind = "resolved"
        /\ UNCHANGED <<customers, intents>> )
      => LET listing == Ids(ListingOf(lastOp.op))
             page1 == Ids(lastOp.outcome.value.data.items)
             page2 == Ids(lastOp'.outcome.value.data.items)
             first == CHOOSE k \in 1..Len(listing) : listing[k] = page1[1]
         IN  page1 \o page2
               = SubSeq(listing, first, Min(Len(listing), first + Len(page1) + 1)) ]_vars

\* The second page of a listing of at least four customers, asked for with the
\* cursor the first page returns.
C15_Witness ==
  /\ name = "stripe"
  /\ ResolvedOp({"listCustomers"})
  /\ Len(ListingOf("listCustomers")) >= 4
  /\ lastOp.args = [limit |-> 2, startingAfter |-> ListingOf("listCustomers")[2].id]
  /\ Ids(lastOp.outcome.value.data.items)
       = << ListingOf("listCustomers")[3].id, ListingOf("listCustomers")[4].id >>

\* C16: a list operation that succeeds returns a page holding the items and
\* hasMore (and the cursors when there are items), not a bare array.
C16_ListReturnsPage ==
  ResolvedOp(PageOps) =>
    /\ {"data", "hasMore"} \subseteq DOMAIN lastOp.outcome.value
    /\ Len(lastOp.outcome.value.data.items) > 0 =>
         {"nextCursor", "prevCursor"} \subseteq DOMAIN lastOp.outcome.value

\* C17: a mutating operation that succeeds returns the entity as it is after
\* the mutation: setDefaultPaymentMethod returns the payment method with
\* isDefault = true, updateCustomer returns a customer showing every field the
\* request supplied, metadata included.
C17_MutationReflected ==
  /\ ResolvedOp({"setDefaultPaymentMethod"}) => lastOp.outcome.value.isDefault
  /\ ResolvedOp({"updateCustomer"}) =>
       LET request == lastOp.args.request
           customer == lastOp.outcome.value
       IN  /\ request.email # Undefined => customer.email = request.email
           /\ request.name # Undefined => customer.name = request.name
           /\ request.metadata # UndefinedValue =>
                /\ customer.metadata.kind = "map"
                /\ request.metadata.entries \subseteq customer.metadata.entries

\* The operations that change records at the vendor.
MutatingOps ==
  { "createCustomer", "updateCustomer", "deleteCustomer",
    "attachPaymentMethod", "detachPaymentMethod", "setDefaultPaymentMethod",
    "createPaymentIntent" }

\* C18: a mutating operation that fails has changed nothing at the vendor; in
\* particular a failed StripeProvider.setDefaultPaymentMethod leaves the
\* customer's default payment method as it was.
C18_FailedMutationChangesNothing ==
  [][ (lastOp'.op \in MutatingOps /\ lastOp'.outcome.kind = "rejected")
      => UNCHANGED <<intents, customers, paymentMethods>> ]_vars

C20_ClientGetsConfiguredOptions ==
  name = "stripe" =>
    /\ client.timeout = IF Has(config, "timeout") THEN config.timeout ELSE 30000
    /\ client.maxNetworkRetries = IF Has(config, "retries") THEN config.retries ELSE 3

\* The feature of supportedFeatures an operation belongs to.
FeatureOf(op) ==
  CASE op \in { "createSubscription", "getSubscription", "updateSubscription",
                "cancelSubscription", "listSubscriptions" } -> "subscriptions"
    [] op \in { "createInvoice", "getInvoice", "updateInvoice", "finalizeInvoice",
                "payInvoice", "listInvoices" } -> "invoices"
    [] op \in { "createRefund", "getRefund", "listRefunds" } -> "refunds"
    [] op \in { "getDispute", "listDisputes", "updateDispute" } -> "disputes"
    [] op \in { "trackUsage", "trackAIUsage", "getUsageMetrics",
                "getAIUsageMetrics" } -> "analytics"
    [] op \in { "createPaymentIntent", "getPaymentIntent", "updatePaymentIntent",
                "cancelPaymentIntent", "confirmPaymentIntent",
                "capturePaymentIntent", "listPaymentIntents" } -> "payments"
    [] op \in { "verifyWebhook", "parseWebhook" } -> "webhooks"
    [] op \in { "createCustomer", "getCustomer", "updateCustomer", "deleteCustomer",
                "listCustomers", "retrieveCustomer", "listPaymentMethods",
                "attachPaymentMethod", "detachPaymentMethod",
                "setDefaultPaymentMethod" } -> "customers"
    [] OTHER -> "none"

\* C21: an operation of a feature the adapter lists in supportedFeatures is
\* never rejected with NOT_IMPLEMENTED or NOT_SUPPORTED.
C21_SupportedFeaturesWork ==
  ( /\ FeatureOf(lastOp.op) \in supportedFeatures(name)
    /\ lastOp.outcome.kind = "rejected" )
  => lastOp.outcome.error.code \notin {"NOT_IMPLEMENTED", "NOT_SUPPORTED"}

\* C22: the amount given to createPaymentIntent is in the vendor's minor units
\* (2000 is $20.00): the vendor is sent the request's amount unchanged, and
\* the returned PaymentIntent carries the request's amount.
C22_AmountAlreadyMinorUnits ==
  lastOp.op = "createPaymentIntent" =>
    /\ lastOp.calls[1].params.amount * 1000 = lastOp.args.amount
    /\ lastOp.outcome.kind = "resolved" =>
         lastOp.outcome.value.amount = lastOp.args.amount

\* What getCustomer(id) does under a vendor reply, on either adapter.
GetCustomer(id, reply) ==
  IF name = "stripe" THEN StripeGetCustomer(id, reply) ELSE RazorpayGetCustomer(id, reply)

\* C23: retrieveCustomer({id}), and on StripeProvider retrieveCustomer(id)
\* with a bare id string, makes the vendor call of getCustomer(id) and has its
\* outcome, whatever the vendor answers.
C23_RetrieveCustomerIsGetCustomer ==
  ( /\ lastOp.op = "retrieveCustomer"
    /\ name = "stripe" \/ Has(lastOp.args, "id") )
  => \E reply \in (IF IdOrSelf(lastOp.args) \in DOMAIN customers
                    THEN {Ok} ELSE {NotFoundError})
                    \cup (VendorErrors \ {NotFoundError}) :
       /\ lastOp.calls = GetCustomer(IdOrSelf(lastOp.args), reply).calls
       /\ lastOp.outcome = GetCustomer(IdOrSelf(lastOp.args), reply).outcome

\* The digest the sender of a webhook computes for the call's body and secret.
LowercaseHexDigest == HmacSha256Hex(lastOp.args.secret, lastOp.args.payload)

\* C24: RazorpayProvider.verifyWebhook resolves, with true exactly when the
\* signature is the lowercase hex HMAC-SHA256 of the payload under the secret,
\* whatever API key the adapter was constructed with.
C24_RazorpayVerifyIsHmacEquality ==
  (name = "razorpay" /\ lastOp.op = "verifyWebhook")
  => /\ lastOp.outcome.kind = "resolved"
     /\ lastOp.outcome.value = TRUE <=> lastOp.args.signature = LowercaseHexDigest

C24_Witness ==
  /\ name = "razorpay"
  /\ config.apiKey[1] = "rzp_live_"
  /\ ResolvedOp({"verifyWebhook"})
  /\ lastOp.outcome.value = TRUE
  /\ lastOp.args.signature = LowercaseHexDigest

\* C25: StripeProvider.parseWebhook resolves with an event only for arguments
\* verifyWebhook accepts; for arguments verifyWebhook answers false to, it is
\* rejected with the 'Webhook parsing failed' error of the adapter.
C25_StripeParseOnlyVerified ==
  (name = "stripe" /\ lastOp.op = "parseWebhook")
  => LET verified == StripeVerifyWebhook(lastOp.args.payload, lastOp.args.signature,
                                         lastOp.args.secret).value
     IN  /\ lastOp.outcome.kind = "resolved" => verified
         /\ ~verified =>
              /\ lastOp.outcome.kind = "rejected"
              /\ lastOp.outcome.error.provider = "stripe"
              /\ lastOp.outcome.error.message = "Webhook parsing failed"

\* A well-formed event body whose header was made with another secret.
C25_Witness ==
  /\ name = "stripe"
  /\ RejectedOp({"parseWebhook"})
  /\ lastOp.args.payload = StripeEventPayload
  /\ lastOp.args.signature =
       StripeHeader(OtherSecret(lastOp.args.secret), StripeEventPayload, TRUE)

\* C26: RazorpayProvider.parseWebhook does not look at the signature or the
\* secret: two calls on the same payload settle the same way whatever the
\* signature and secret of each, and livemode of the event is false exactly
\* when config.apiKey starts with 'rzp_test_'.
C26_RazorpayParseIgnoresSignature ==
  [][ (name = "razorpay" /\ lastOp'.op = "parseWebhook")
      => /\ ( /\ lastOp.op = "parseWebhook"
              /\ lastOp.args.payload = lastOp'.args.payload )
            => lastOp'.outcome = lastOp.outcome
         /\ JSONParse(lastOp'.args.payload).ok =>
              /\ lastOp'.outcome.kind = "resolved"
              /\ lastOp'.outcome.value.livemode = FALSE
                   <=> config.apiKey[1] = "rzp_test_" ]_vars

\* An event is returned for a signature verifyWebhook answers false to.
C26_Witness ==
  /\ name = "razorpay"
  /\ ResolvedOp({"parseWebhook"})
  /\ lastOp.args.signature # LowercaseHexDigest
  /\ ~RazorpayVerifyWebhook(lastOp.args.payload, lastOp.args.signature,
                            lastOp.args.secret).value
  /\ lastOp.outcome.value.livemode = FALSE

\* Whether the vendor's records hold customer id as deleted.
DeletedIn(records, id) ==
  /\ id \in DOMAIN records
  /\ Has(records[id], "deleted")
  /\ records[id].deleted

RazorpayGetOutcome(reply) ==
  IF Has(reply, "ok")
  THEN Rejected(createProviderError("razorpay", reply, Undefined))
  ELSE Resolved(mapRazorpayOrder(reply, Undefined))

\* C28: a call of RazorpayProvider.confirmPaymentIntent(id, pm) (a step that
\* records it as the last operation) makes exactly one vendor call,
\* orders.fetch(id), leaves the vendor's orders as they were, settles as
\* getPaymentIntent(id) does on the same vendor answer whatever pm is, and no
\* PaymentIntent the adapter resolves with has status 'canceled'.
C28_RazorpayConfirmIsGet ==
  [][ name = "razorpay" =>
        /\ (lastOp' # lastOp /\ lastOp'.op = "confirmPaymentIntent") =>
             /\ intents' = intents
             /\ Len(lastOp'.calls) = 1
             /\ lastOp'.calls[1].api = "orders.fetch"
             /\ lastOp'.calls[1].params = [id |-> lastOp'.args.id]
             /\ lastOp'.outcome = RazorpayGetOutcome(lastOp'.calls[1].reply)
             /\ lastOp'.outcome.kind = "resolved" =>
                  lastOp'.calls[1].reply = intents[lastOp'.args.id]
        /\ ( /\ lastOp'.op \in {"getPaymentIntent", "confirmPaymentIntent"}
             /\ lastOp'.outcome.kind = "resolved" )
             => lastOp'.outcome.value.status # "canceled" ]_vars

\* A confirm with a payment method, on an order the vendor holds as paid.
C28_Witness ==
  /\ name = "razorpay"
  /\ ResolvedOp({"confirmPaymentIntent"})
  /\ lastOp.args.paymentMethodId = "pm_1"
  /\ intents[lastOp.args.id].status = "paid"
  /\ lastOp.outcome.value.status = "succeeded"

\* C29: on RazorpayProvider, after createPaymentIntent with a customerId
\* resolved with id i, getPaymentIntent(i) reports that customerId.
C29_CustomerIdStable ==
  [][ ( /\ name = "razorpay"
        /\ ResolvedOp({"createPaymentIntent"})
        /\ lastOp.args.customerId # Undefined
        /\ lastOp'.op = "getPaymentIntent"
        /\ lastOp'.outcome.kind = "resolved"
        /\ lastOp'.args.id = lastOp.outcome.value.id )
      => lastOp'.outcome.value.customerId = lastOp.args.customerId ]_vars

\* C30: StripeProvider.capturePaymentIntent(id, amount) and
\* updatePaymentIntent(id, {amount}) send the vendor round(amount * 100) as
\* amount_to_capture / amount whenever the caller gave an amount, 0 included,
\* and leave the field out only when the caller gave none.
C30_GivenAmountIsSent ==
  /\ (name = "stripe" /\ lastOp.op = "capturePaymentIntent") =>
       IF Has(lastOp.args, "amount")
       THEN /\ Has(lastOp.calls[1].params, "amount_to_capture")
            /\ lastOp.calls[1].params.amount_to_capture
                 = MathRoundTimes100(lastOp.args.amount)
       ELSE ~Has(lastOp.calls[1].params, "amount_to_capture")
  /\ (name = "stripe" /\ lastOp.op = "updatePaymentIntent") =>
       IF Has(lastOp.args.updates, "amount")
       THEN /\ Has(lastOp.calls[1].params, "amount")
            /\ lastOp.calls[1].params.amount
                 = MathRoundTimes100(lastOp.args.updates.amount)
       ELSE ~Has(lastOp.calls[1].params, "amount")
====
